---- MODULE Spec2Model ----
(***************************************************************************)
(* A model of python-sentry-logger-wrapper: the log event processors of    *)
(* _processors.py, the remote-sink filters and the configuration gate of   *)
(* core.py (get_logger / reset_configuration).                             *)
(***************************************************************************)
EXTENDS Integers, Sequences, FiniteSets, TLC

VARIABLES
    fn, arg, env, res,                       \* one call of a processor or filter
    is_configured, sentry, sentry_inits,     \* the configuration gate and what it installs
    chain, handlers, root_level,
    ncalls, last,
    pc, topts,                               \* the threads inside get_logger
    call, ed, lpos, applied, lout, diags     \* one log call in flight

vars == <<fn, arg, env, res, is_configured, sentry, sentry_inits, chain,
          handlers, root_level, ncalls, last, pc, topts, call, ed, lpos, applied,
          lout, diags>>

fnVars == <<fn, arg, env, res>>
gateVars == <<is_configured, sentry, sentry_inits, chain, handlers, root_level>>
seqVars == <<ncalls, last>>
threadVars == <<pc, topts>>
logVars == <<call, ed, lpos, applied, lout, diags>>

----------------------------------------------------------------------------
(* Bounds of the model. *)

MaxCustom == 2      \* custom keyword fields of one log call
MaxFields == 3      \* fields of an event handed directly to one processor
MaxCalls == 4       \* get_logger / reset_configuration calls of a sequential run
MaxThreads == 2     \* threads calling get_logger concurrently

----------------------------------------------------------------------------
(* The levels of the standard logging library, as core.py names them. *)

DEBUG == 10
INFO == 20
WARNING == 30
ERROR == 40
CRITICAL == 50

Levels == {DEBUG, INFO, WARNING, ERROR, CRITICAL}

----------------------------------------------------------------------------
(* Python values.  Every value is a record of the same shape, so that any  *)
(* two can be compared: t is the type, s the content of a text (or the     *)
(* digits of a number), and for a mapping (it, s) are the type and content *)
(* of the value under the one key the code reads from it ("logger.name" in *)
(* attributes, "formatted" in logentry); it = "absent" is the mapping {}.  *)

Absent == [t |-> "absent", s |-> "", it |-> "none"]
Null == [t |-> "null", s |-> "", it |-> "none"]
Txt(x) == [t |-> "text", s |-> x, it |-> "none"]
Num(x) == [t |-> "num", s |-> x, it |-> "none"]
Bool(x) == [t |-> "bool", s |-> x, it |-> "none"]
MapOf(inner) == [t |-> "map", s |-> inner.s, it |-> inner.t]
EmptyMap == MapOf(Absent)

\* bool(v): None, "", 0, False and {} are false.
Truthy(v) ==
    CASE v.t = "text" -> v.s # ""
      [] v.t = "num" -> v.s # "0"
      [] v.t = "bool" -> v.s = "true"
      [] v.t = "map" -> v.it # "absent"
      [] OTHER -> FALSE

\* mapping.get(key, default) where v is what the mapping holds under key.
Get(v, default) == IF v.t = "absent" THEN default ELSE v

\* v.get(key, default) for the key the code reads from the mapping v.
MapGet(v, default) ==
    IF v.it = "absent" THEN default ELSE [t |-> v.it, s |-> v.s, it |-> "none"]

\* str.lower() on the labels of the model.
Lower(x) ==
    CASE x = "DEBUG" -> "debug"
      [] x = "INFO" -> "info"
      [] x = "Warning" -> "warning"
      [] x = "WARNING" -> "warning"
      [] x = "ERROR" -> "error"
      [] x = "FATAL" -> "fatal"
      [] x = "CRITICAL" -> "critical"
      [] OTHER -> x

\* str.upper() on the labels of the model.
Upper(x) ==
    CASE x = "debug" -> "DEBUG"
      [] x = "info" -> "INFO"
      [] x = "Warning" -> "WARNING"
      [] x = "warning" -> "WARNING"
      [] x = "error" -> "ERROR"
      [] x = "critical" -> "CRITICAL"
      [] x = "fatal" -> "FATAL"
      [] OTHER -> x

\* The messages of the model, as the pieces the filters look for in them.
Pieces(x) ==
    CASE x = "GET /health HTTP/1.1 200" -> <<"GET /health", " ", "HTTP", "/1.1 200">>
      [] x = "GET /orders HTTP/1.1 200" -> <<"GET /orders", " ", "HTTP", "/1.1 200">>
      [] x = "GET /health" -> <<"GET /health">>
      [] x = "HTTP" -> <<"HTTP">>
      [] x = "" -> <<>>
      [] OTHER -> <<x>>

\* needle in text
Contains(needle, x) == \E i \in DOMAIN Pieces(x) : Pieces(x)[i] = needle

\* `needle in v` of Python: a substring test on a text, a key test on a mapping
\* (no mapping of the model has a marker as a key), TypeError on anything else.
InRaises(v) == v.t \notin {"text", "map"}
In(needle, v) == v.t = "text" /\ Contains(needle, v.s)

----------------------------------------------------------------------------
(* Results of a filter: the item kept (returned unchanged), dropped        *)
(* (None returned) or an exception raised.                                  *)

NoItem == [none |-> Absent]
Keep(item) == [outcome |-> "keep", exc |-> "", item |-> item]
Drop == [outcome |-> "drop", exc |-> "", item |-> NoItem]
Raise(e) == [outcome |-> "raise", exc |-> e, item |-> NoItem]

----------------------------------------------------------------------------
(* The remote-sink filters of core.py.  An item is a record of the fields  *)
(* the filter reads, each a value (Absent when the item lacks the key).    *)

severity_map_get(label) ==
    CASE label = "debug" -> DEBUG
      [] label = "info" -> INFO
      [] label = "warn" -> WARNING
      [] label = "warning" -> WARNING
      [] label = "error" -> ERROR
      [] label = "fatal" -> CRITICAL
      [] OTHER -> INFO

HealthMessage(message) == In("GET /health", message) /\ In("HTTP", message)

\* core.py 103-105: body, or logentry.formatted when body is empty.
\* The result is <<raised, message>>.
before_send_log_message(event) ==
    LET body == Get(event.body, Txt(""))
        logentry == Get(event.logentry, EmptyMap)
    IN IF Truthy(body) THEN <<FALSE, body>>
       ELSE IF logentry.t # "map" THEN <<TRUE, Null>>
       ELSE <<FALSE, MapGet(logentry, Txt(""))>>

before_send_log_mut(event, sentry_log_level) ==
    LET severity_text == event.severity_text
        logger == Get(event.logger, Txt(""))
        attributes == Get(event.attributes, EmptyMap)
        logger_name == IF Truthy(logger) THEN logger ELSE MapGet(attributes, Txt(""))
        msg == before_send_log_message(event)
    IN IF Truthy(severity_text) /\ severity_text.t # "text" THEN Raise("AttributeError")
       ELSE IF Truthy(severity_text)
               /\ severity_map_get(severity_text.s) < sentry_log_level THEN Drop
       ELSE IF ~Truthy(logger) /\ attributes.t # "map" THEN Raise("AttributeError")
       ELSE IF logger_name # Txt("uvicorn.access") THEN Keep(event)
       ELSE IF msg[1] THEN Raise("AttributeError")
       ELSE IF InRaises(msg[2]) THEN Raise("TypeError")
       ELSE IF HealthMessage(msg[2]) THEN Drop
       ELSE Keep(event)

\* core.py 65-110
before_send_log(event, sentry_log_level) ==
    LET severity_text == event.severity_text
        logger == Get(event.logger, Txt(""))
        attributes == Get(event.attributes, EmptyMap)
        logger_name == IF Truthy(logger) THEN logger ELSE MapGet(attributes, Txt(""))
        msg == before_send_log_message(event)
    IN IF Truthy(severity_text) /\ severity_text.t # "text" THEN Raise("AttributeError")
       ELSE IF Truthy(severity_text)
               /\ severity_map_get(Lower(severity_text.s)) < sentry_log_level THEN Drop
       ELSE IF ~Truthy(logger) /\ attributes.t # "map" THEN Raise("AttributeError")
       ELSE IF logger_name # Txt("uvicorn.access") THEN Keep(event)
       ELSE IF msg[1] THEN Raise("AttributeError")
       ELSE IF InRaises(msg[2]) THEN Raise("TypeError")
       ELSE IF HealthMessage(msg[2]) THEN Drop
       ELSE Keep(event)

\* core.py 113-119, with the default of line 120
breadcrumb_level_map_get(level) ==
    CASE level = DEBUG -> "debug"
      [] level = INFO -> "info"
      [] level = WARNING -> "warning"
      [] level = ERROR -> "error"
      [] level = CRITICAL -> "fatal"
      [] OTHER -> "info"

\* core.py 121
breadcrumb_levels == <<"debug", "info", "warning", "error", "fatal">>

IndexOf(seq, x) == CHOOSE i \in DOMAIN seq : seq[i] = x

\* core.py 120-122
allowed_breadcrumb_levels(sentry_breadcrumbs_level) ==
    LET min_breadcrumb_level == breadcrumb_level_map_get(sentry_breadcrumbs_level)
    IN SubSeq(breadcrumb_levels, IndexOf(breadcrumb_levels, min_breadcrumb_level),
              Len(breadcrumb_levels))

InSeq(x, seq) == \E i \in DOMAIN seq : seq[i] = x

\* core.py 124-151
before_breadcrumb(crumb, sentry_breadcrumbs_level) ==
    LET category == Get(crumb.category, Txt(""))
        message == Get(crumb.message, Txt(""))
        crumb_level == crumb.level
    IN IF category = Txt("uvicorn.access") /\ InRaises(message) THEN Raise("TypeError")
       ELSE IF category = Txt("uvicorn.access") /\ In("GET /health", message) THEN Drop
       ELSE IF crumb_level.t \in {"absent", "null"}
            THEN IF sentry_breadcrumbs_level <= INFO THEN Keep(crumb) ELSE Drop
       ELSE IF crumb_level.t = "text"
               /\ InSeq(crumb_level.s, allowed_breadcrumb_levels(sentry_breadcrumbs_level))
            THEN Keep(crumb)
       ELSE Drop

\* core.py 153-164
before_send_transaction(event) ==
    LET transaction_name == Get(event.transaction, Txt(""))
    IN IF transaction_name = Txt("/health") THEN Drop ELSE Keep(event)

\* core.py 166-178
before_send(event) ==
    LET logger_name == Get(event.logger, Txt(""))
        logentry == Get(event.logentry, EmptyMap)
        message == MapGet(logentry, Txt(""))
    IN IF logger_name # Txt("uvicorn.access") THEN Keep(event)
       ELSE IF logentry.t # "map" THEN Raise("AttributeError")
       ELSE IF InRaises(message) THEN Raise("TypeError")
       ELSE IF HealthMessage(message) THEN Drop
       ELSE Keep(event)

----------------------------------------------------------------------------
(* Event dictionaries.  A dict is the sequence of its entries in insertion *)
(* order, with no key twice; an entry is [k, t, s, d]: key, type and       *)
(* content of the value, and for the details mapping its own entries.      *)

Entry(k, t, s) == [k |-> k, t |-> t, s |-> s, d |-> <<>>]

Keys(dict) == [i \in DOMAIN dict |-> dict[i].k]
KeySet(dict) == {dict[i].k : i \in DOMAIN dict}
Has(dict, key) == key \in KeySet(dict)
At(dict, key) == dict[CHOOSE i \in DOMAIN dict : dict[i].k = key]

\* dict.pop(key, None): the dict without the key
Pop(dict, key) ==
    LET Other(e) == e.k # key
    IN SelectSeq(dict, Other)

\* dict[key] = the value of entry e: in place when the key exists, else at the end
Put(dict, key, e) ==
    LET new == [e EXCEPT !.k = key]
    IN IF Has(dict, key)
       THEN [i \in DOMAIN dict |-> IF dict[i].k = key THEN new ELSE dict[i]]
       ELSE Append(dict, new)

\* What a processor does: returns the event dict or raises; diag is whether it
\* printed a diagnostic.
Return(dict, diag) == [outcome |-> "return", exc |-> "", ev |-> dict, diag |-> diag]
Raised(e) == [outcome |-> "raise", exc |-> e, ev |-> <<>>, diag |-> FALSE]

\* _processors.py 7
STANDARD_FIELDS == {"timestamp", "log_level", "service_name", "message", "trace_id", "logger"}

\* key.startswith("_") on the keys of the model
StartsWithUnderscore(key) == key \in {"_", "_record", "_from_structlog", "_secret"}

remove_processors_meta_safe_mut(event_dict) ==
    Return(Pop(event_dict, "_record"), FALSE)

\* _processors.py 10-19
remove_processors_meta_safe(event_dict) ==
    Return(Pop(Pop(event_dict, "_record"), "_from_structlog"), FALSE)

\* _processors.py 22-46
rename_and_flatten_fields(event_dict) ==
    LET e1 == IF Has(event_dict, "event")
              THEN Put(Pop(event_dict, "event"), "message", At(event_dict, "event"))
              ELSE event_dict
        e2 == IF Has(e1, "logger_name")
              THEN Put(Pop(e1, "logger_name"), "logger_name", At(e1, "logger_name"))
              ELSE e1
    IN IF ~Has(e2, "level") THEN Return(e2, FALSE)
       ELSE IF At(e2, "level").t # "text" THEN Raised("AttributeError")
       ELSE Return(Put(Pop(e2, "level"), "log_level",
                       [At(e2, "level") EXCEPT !.s = Upper(@)]), FALSE)

\* str.split("-") on the correlation headers of the model
Split(x) ==
    CASE x = "abc123-def456" -> <<"abc123", "def456">>
      [] x = "abc123-def456-01" -> <<"abc123", "def456", "01">>
      [] x = "-" -> <<"", "">>
      [] OTHER -> <<x>>

\* What sentry_sdk answers to the enricher: scope is "none" (no current scope),
\* "raises" (the lookup fails), "active" (get_traceparent returns traceparent) or
\* "tp_raises" (get_traceparent fails).
TraceEnv(scope, traceparent) == [scope |-> scope, traceparent |-> traceparent]

add_sentry_trace_id_mut(event_dict, sdk) ==
    LET traceparent == sdk.traceparent
        trace_span_list == Split(traceparent.s)
    IN IF sdk.scope = "none" THEN Return(event_dict, FALSE)
       ELSE IF sdk.scope \in {"raises", "tp_raises"} THEN Return(event_dict, TRUE)
       ELSE IF ~Truthy(traceparent) THEN Return(event_dict, TRUE)
       ELSE IF traceparent.t # "text" THEN Return(event_dict, TRUE)
       ELSE IF Len(trace_span_list) < 2
            THEN Return(Put(event_dict, "trace_id",
                            Entry("trace_id", "text", trace_span_list[1])), TRUE)
       ELSE Return(Put(Put(event_dict, "trace_id", Entry("trace_id", "text", trace_span_list[1])),
                       "span_id", Entry("span_id", "text", trace_span_list[2])), FALSE)

\* _processors.py 49-80
add_sentry_trace_id(event_dict, sdk) ==
    LET traceparent == sdk.traceparent
        trace_span_list == Split(traceparent.s)
    IN IF sdk.scope = "none" THEN Return(event_dict, FALSE)
       ELSE IF sdk.scope \in {"raises", "tp_raises"} THEN Return(event_dict, TRUE)
       ELSE IF ~Truthy(traceparent) THEN Return(event_dict, TRUE)
       ELSE IF traceparent.t # "text" THEN Return(event_dict, TRUE)
       ELSE IF Len(trace_span_list) < 2 THEN Return(event_dict, TRUE)
       ELSE Return(Put(Put(event_dict, "trace_id", Entry("trace_id", "text", trace_span_list[1])),
                       "span_id", Entry("span_id", "text", trace_span_list[2])), FALSE)

RECURSIVE nest_loop(_, _, _)
\* _processors.py 115-120: the loop over list(event_dict.keys())
nest_loop(keys, event_dict, details) ==
    IF keys = <<>> THEN <<event_dict, details>>
    ELSE LET key == Head(keys)
         IN IF StartsWithUnderscore(key)
            THEN nest_loop(Tail(keys), Pop(event_dict, key), details)
            ELSE IF key \notin STANDARD_FIELDS
            THEN nest_loop(Tail(keys), Pop(event_dict, key),
                           Put(details, key, At(event_dict, key)))
            ELSE nest_loop(Tail(keys), event_dict, details)

nest_custom_fields_mut(event_dict) ==
    LET r == nest_loop(Keys(event_dict), event_dict, <<>>)
    IN Return(Put(r[1], "details", [k |-> "details", t |-> "map", s |-> "", d |-> r[2]]),
              FALSE)

\* _processors.py 97-125
nest_custom_fields(event_dict) ==
    LET r == nest_loop(Keys(event_dict), event_dict, <<>>)
    IN IF r[2] # <<>>
       THEN Return(Put(r[1], "details",
                       [k |-> "details", t |-> "map", s |-> "", d |-> r[2]]), FALSE)
       ELSE Return(r[1], FALSE)

----------------------------------------------------------------------------
(* The inputs of the model. *)

\* Fields of an event handed to one processor: text, number, boolean, mapping
\* and null values under source keys, standard keys, internal keys and custom keys.
FieldPool ==
    { Entry("event", "text", "hello"), Entry("level", "text", "Warning"),
      Entry("level", "num", "5"), Entry("logger_name", "text", "svc"),
      Entry("message", "text", "old"), Entry("timestamp", "text", "t0"),
      Entry("_record", "map", ""), Entry("_from_structlog", "bool", "true"),
      Entry("version", "text", "1.0.0"), Entry("details", "map", ""),
      Entry("trace_id", "text", "caller"), Entry("user_id", "null", "") }

DistinctKeys(dict) == \A i, j \in DOMAIN dict : i # j => dict[i].k # dict[j].k

DictsOver(pool, n) ==
    UNION { {d \in [1..m -> pool] : DistinctKeys(d)} : m \in 0..n }

Events == DictsOver(FieldPool, MaxFields)

Traceparents ==
    { Null, Txt(""), Txt("abc123"), Txt("abc123-def456"), Txt("abc123-def456-01"), Num("7") }

TraceEnvs ==
    { TraceEnv("none", Null), TraceEnv("raises", Null), TraceEnv("tp_raises", Null) }
    \cup { TraceEnv("active", tp) : tp \in Traceparents }

HealthLine == "GET /health HTTP/1.1 200"
OrdersLine == "GET /orders HTTP/1.1 200"

LogItems ==
    [ severity_text : { Absent, Null, Txt(""), Txt("debug"), Txt("ERROR"), Txt("warn"),
                        Txt("warning"), Txt("error"), Txt("fatal"), Txt("verbose"),
                        Num("5") },
      logger : { Absent, Null, Txt(""), Txt("uvicorn.access"), Txt("myapp") },
      attributes : { Absent, Null, EmptyMap, MapOf(Txt("uvicorn.access")),
                     MapOf(Txt("myapp")) },
      body : { Absent, Null, Txt(""), Txt(HealthLine), Txt(OrdersLine),
               Txt("GET /health"), Num("7") },
      logentry : { Absent, Null, MapOf(Txt(HealthLine)), MapOf(Txt(OrdersLine)),
                   MapOf(Null) } ]

SendItems ==
    [ logger : { Absent, Null, Txt("uvicorn.access"), Txt("myapp") },
      logentry : { Absent, Null, EmptyMap, MapOf(Txt(HealthLine)), MapOf(Txt(OrdersLine)),
                   MapOf(Txt("HTTP")), MapOf(Null), Txt("x") },
      extra : { Absent, Txt("x") } ]

Crumbs ==
    [ category : { Absent, Null, Txt("uvicorn.access"), Txt("http") },
      message : { Absent, Null, Txt(HealthLine), Txt(OrdersLine), Txt("GET /health"),
                  Num("7") },
      level : { Absent, Null, Txt("debug"), Txt("info"), Txt("warning"), Txt("error"),
                Txt("fatal"), Txt("critical"), Txt("INFO"), Num("3") },
      extra : { Absent, Txt("x") } ]

Transactions ==
    [ transaction : { Absent, Null, Txt("/health"), Txt("/orders"), Txt(""), Num("7"),
                      EmptyMap },
      extra : { Absent, Txt("x") } ]

----------------------------------------------------------------------------
(* One call of one processor or filter on an input it may be given. *)

Pending == [outcome |-> "pending"]
NoEnv == [scope |-> "none", traceparent |-> Null, level |-> 0]
LevelEnv(level) == [scope |-> "none", traceparent |-> Null, level |-> level]

Processors ==
    { "rename_and_flatten_fields", "nest_custom_fields", "remove_processors_meta_safe" }

FnIdle == fn = "none" /\ arg = <<>> /\ env = NoEnv /\ res = Pending

FnInit ==
    /\ res = Pending
    /\ \/ fn \in Processors /\ arg \in Events /\ env = NoEnv
       \/ fn = "add_sentry_trace_id" /\ arg \in Events /\ env \in TraceEnvs
       \/ fn = "before_send_log" /\ arg \in LogItems /\ env \in {LevelEnv(l) : l \in Levels}
       \/ fn = "before_breadcrumb" /\ arg \in Crumbs /\ env \in {LevelEnv(l) : l \in Levels}
       \/ fn = "before_send" /\ arg \in SendItems /\ env = NoEnv
       \/ fn = "before_send_transaction" /\ arg \in Transactions /\ env = NoEnv

Call(name, result) ==
    /\ fn = name
    /\ res = Pending
    /\ res' = result
    /\ UNCHANGED <<fn, arg, env, gateVars, seqVars, threadVars, logVars>>

CallRename == Call("rename_and_flatten_fields", rename_and_flatten_fields(arg))
CallNest == Call("nest_custom_fields", nest_custom_fields(arg))
CallRemoveMeta == Call("remove_processors_meta_safe", remove_processors_meta_safe(arg))
CallTrace == Call("add_sentry_trace_id", add_sentry_trace_id(arg, env))
CallBeforeSendLog == Call("before_send_log", before_send_log(arg, env.level))
CallBeforeBreadcrumb == Call("before_breadcrumb", before_breadcrumb(arg, env.level))
CallBeforeSend == Call("before_send", before_send(arg))
CallBeforeSendTransaction == Call("before_send_transaction", before_send_transaction(arg))

FnNext ==
    \/ CallRename
    \/ CallNest
    \/ CallRemoveMeta
    \/ CallTrace
    \/ CallBeforeSendLog
    \/ CallBeforeBreadcrumb
    \/ CallBeforeSend
    \/ CallBeforeSendTransaction

----------------------------------------------------------------------------
(* The configuration gate: get_logger and reset_configuration (core.py).   *)

\* The arguments of get_logger; sentry_dsn "" and sentry_environment "" are None.
Options ==
    [ service_name : {"svc-a", "svc-b"},
      log_level : {DEBUG, INFO},
      sentry_dsn : {"", "dsn-1", "dsn-2"},
      sentry_environment : {"", "production", "staging"},
      sentry_breadcrumbs_level : {INFO},
      sentry_log_level : {WARNING, ERROR} ]

NoOptions ==
    [ service_name |-> "", log_level |-> 0, sentry_dsn |-> "", sentry_environment |-> "",
      sentry_breadcrumbs_level |-> 0, sentry_log_level |-> 0 ]

\* The remote client sentry_sdk holds: none before any sentry_sdk.init.
NoClient ==
    [ mode |-> "none", dsn |-> "", environment |-> "", event_level |-> 0,
      breadcrumb_level |-> 0, filters |-> FALSE ]

\* core.py 63-205: the client after the body's sentry_sdk.init, if it calls it
sentry_init(opts, client) ==
    IF opts.sentry_environment \in {"production", "test"} /\ opts.sentry_dsn # ""
    THEN [ mode |-> "full", dsn |-> opts.sentry_dsn,
           environment |-> opts.sentry_environment,
           event_level |-> opts.sentry_log_level,
           breadcrumb_level |-> opts.sentry_breadcrumbs_level, filters |-> TRUE ]
    ELSE IF opts.sentry_dsn # ""
    THEN [ mode |-> "minimal", dsn |-> opts.sentry_dsn,
           environment |-> opts.sentry_environment, event_level |-> 0,
           breadcrumb_level |-> 0, filters |-> FALSE ]
    ELSE client

\* core.py 63, 198: whether the body calls sentry_sdk.init
CallsSentryInit(opts) == opts.sentry_dsn # ""

shared_processors_mut(opts) ==
    << "merge_contextvars", "add_log_level", "add_logger_name", "TimeStamper",
       "StackInfoRenderer", "format_exc_info", "rename_and_flatten_fields" >>
    \o (IF opts.sentry_dsn # "" THEN <<"add_sentry_trace_id">> ELSE <<>>)
    \o <<"nest_custom_fields">>

\* core.py 208-220
shared_processors(opts) ==
    << "merge_contextvars", "add_log_level", "add_logger_name", "TimeStamper",
       "StackInfoRenderer", "format_exc_info", "rename_and_flatten_fields",
       "nest_custom_fields" >>
    \o (IF opts.sentry_dsn # "" THEN <<"add_sentry_trace_id">> ELSE <<>>)

\* core.py 222-229: the processors structlog.configure is given
configured_processors(opts) == shared_processors(opts) \o <<"wrap_for_formatter">>

\* structlog's own processors, in force before configure and after reset_defaults
DefaultChain == <<"structlog_defaults">>

\* core.py 231-240: the stdout handler with its formatter
StreamHandler(opts) ==
    [ stream |-> "stdout", foreign_pre_chain |-> shared_processors(opts),
      processors |-> <<"remove_processors_meta_safe", "JSONRenderer">> ]

GateInit ==
    /\ is_configured = FALSE
    /\ sentry = NoClient
    /\ sentry_inits = 0
    /\ chain = DefaultChain
    /\ handlers = <<>>
    /\ root_level = WARNING

\* What is installed, as one value.
Installed ==
    [ sentry |-> sentry, chain |-> chain, handlers |-> handlers, root_level |-> root_level ]

\* What a process configured by get_logger(opts) alone has installed.
InstalledBy(opts) ==
    [ sentry |-> sentry_init(opts, NoClient), chain |-> configured_processors(opts),
      handlers |-> <<StreamHandler(opts)>>, root_level |-> opts.log_level ]

\* core.py 61-247: the body behind the gate, run as one step
Initialize(opts) ==
    /\ sentry' = sentry_init(opts, sentry)
    /\ sentry_inits' = sentry_inits + (IF CallsSentryInit(opts) THEN 1 ELSE 0)
    /\ chain' = configured_processors(opts)
    /\ handlers' = <<StreamHandler(opts)>>
    /\ root_level' = opts.log_level
    /\ is_configured' = TRUE

NoCall == [kind |-> "none", opts |-> NoOptions, ran |-> FALSE, count |-> 0,
           before |-> [sentry |-> NoClient, chain |-> DefaultChain, handlers |-> <<>>,
                       root_level |-> WARNING],
           logger |-> ""]

SeqIdle == ncalls = 0 /\ last = NoCall

\* core.py 16-251, called with no other call of the module in progress.  last
\* records the call: whether the body ran, which get_logger call it is since the
\* process started or was last reset, and what was installed before it.
GetLogger(opts) ==
    /\ ncalls < MaxCalls
    /\ IF ~is_configured THEN Initialize(opts) ELSE UNCHANGED gateVars
    /\ ncalls' = ncalls + 1
    /\ last' = [kind |-> "get_logger", opts |-> opts, ran |-> ~is_configured,
                count |-> last.count + 1, before |-> Installed,
                logger |-> opts.service_name]
    /\ UNCHANGED <<fnVars, threadVars, logVars>>

\* core.py 254-262
reset_configuration ==
    /\ ncalls < MaxCalls
    /\ is_configured' = FALSE
    /\ chain' = DefaultChain
    /\ UNCHANGED <<sentry, sentry_inits, handlers, root_level>>
    /\ ncalls' = ncalls + 1
    /\ last' = [kind |-> "reset_configuration", opts |-> NoOptions, ran |-> FALSE,
                count |-> 0, before |-> Installed, logger |-> ""]
    /\ UNCHANGED <<fnVars, threadVars, logVars>>

----------------------------------------------------------------------------
(* get_logger called from several threads at once.  The interpreter may    *)
(* switch threads between any two statements of the body, so each          *)
(* statement that touches shared state is a step of its own.               *)

Threads == 1..MaxThreads

ThreadOptions ==
    { o \in Options : o.service_name = "svc-a" /\ o.log_level = INFO
                       /\ o.sentry_log_level = ERROR
                       /\ o.sentry_environment \in {"production", "staging"}
                       /\ o.sentry_dsn \in {"", "dsn-1"} }

ThreadIdle == pc = <<>> /\ topts = <<>>

ThreadInit ==
    /\ pc = [t \in Threads |-> "check"]
    /\ topts \in [Threads -> ThreadOptions]

Goto(t, label) == pc' = [pc EXCEPT ![t] = label]

ThreadStep(t, from) ==
    /\ pc[t] = from
    /\ UNCHANGED <<topts, fnVars, seqVars, logVars>>

\* core.py 61
TCheckGate(t) ==
    /\ ThreadStep(t, "check")
    /\ Goto(t, IF ~is_configured THEN "sentry" ELSE "get")
    /\ UNCHANGED gateVars

\* core.py 63-205
TSentryInit(t) ==
    /\ ThreadStep(t, "sentry")
    /\ sentry' = sentry_init(topts[t], sentry)
    /\ sentry_inits' = sentry_inits + (IF CallsSentryInit(topts[t]) THEN 1 ELSE 0)
    /\ Goto(t, "configure")
    /\ UNCHANGED <<is_configured, chain, handlers, root_level>>

\* core.py 208-229
TConfigure(t) ==
    /\ ThreadStep(t, "configure")
    /\ chain' = configured_processors(topts[t])
    /\ Goto(t, "clear")
    /\ UNCHANGED <<is_configured, sentry, sentry_inits, handlers, root_level>>

\* core.py 243
TClearHandlers(t) ==
    /\ ThreadStep(t, "clear")
    /\ handlers' = <<>>
    /\ Goto(t, "add")
    /\ UNCHANGED <<is_configured, sentry, sentry_inits, chain, root_level>>

\* core.py 244
TAddHandler(t) ==
    /\ ThreadStep(t, "add")
    /\ handlers' = Append(handlers, StreamHandler(topts[t]))
    /\ Goto(t, "level")
    /\ UNCHANGED <<is_configured, sentry, sentry_inits, chain, root_level>>

\* core.py 245
TSetLevel(t) ==
    /\ ThreadStep(t, "level")
    /\ root_level' = topts[t].log_level
    /\ Goto(t, "flag")
    /\ UNCHANGED <<is_configured, sentry, sentry_inits, chain, handlers>>

\* core.py 247
TSetConfigured(t) ==
    /\ ThreadStep(t, "flag")
    /\ is_configured' = TRUE
    /\ Goto(t, "get")
    /\ UNCHANGED <<sentry, sentry_inits, chain, handlers, root_level>>

\* core.py 249-251
TReturn(t) ==
    /\ ThreadStep(t, "get")
    /\ Goto(t, "done")
    /\ UNCHANGED gateVars

ThreadNext ==
    \E t \in Threads :
        \/ TCheckGate(t)
        \/ TSentryInit(t)
        \/ TConfigure(t)
        \/ TClearHandlers(t)
        \/ TAddHandler(t)
        \/ TSetLevel(t)
        \/ TSetConfigured(t)
        \/ TReturn(t)

----------------------------------------------------------------------------
(* One log call through what get_logger installed: the processors of the   *)
(* structlog library that core.py 209-214 and 224-236 put in the chain,    *)
(* by what the library documents of them, then the call step by step.      *)

RECURSIVE PutAll(_, _)
\* dict.update(other)
PutAll(dict, other) ==
    IF other = <<>> THEN dict
    ELSE PutAll(Put(dict, Head(other).k, Head(other)), Tail(other))

\* core.py 209: the bound context variables, updated with the event's own fields
merge_contextvars(event_dict, ctx) == PutAll(ctx, event_dict)

\* core.py 210: level = the name of the logging method
add_log_level(event_dict, method_name) ==
    Put(event_dict, "level",
        Entry("level", "text",
              CASE method_name = "warn" -> "warning"
                [] method_name = "exception" -> "error"
                [] OTHER -> method_name))

\* core.py 211: logger = the name of the logger (of the record, for a foreign one)
add_logger_name(event_dict, name) == Put(event_dict, "logger", Entry("logger", "text", name))

\* core.py 212
TimeStamper(event_dict) ==
    Put(event_dict, "timestamp", Entry("timestamp", "text", "2024-01-15T10:30:00Z"))

\* core.py 213: stack_info is popped, and rendered as stack when it was true
StackInfoRenderer(event_dict) ==
    IF Has(event_dict, "stack_info") /\ At(event_dict, "stack_info").s = "true"
    THEN Put(Pop(event_dict, "stack_info"), "stack", Entry("stack", "text", "stack"))
    ELSE Pop(event_dict, "stack_info")

\* core.py 214: exc_info is popped, and rendered as exception when it was true
format_exc_info(event_dict) ==
    IF Has(event_dict, "exc_info") /\ At(event_dict, "exc_info").s = "true"
    THEN Put(Pop(event_dict, "exc_info"), "exception", Entry("exception", "text", "tb"))
    ELSE Pop(event_dict, "exc_info")

JsonType(t) ==
    CASE t = "text" -> "string"
      [] t = "num" -> "number"
      [] t = "bool" -> "boolean"
      [] t = "null" -> "null"
      [] t = "map" -> "object"
      [] OTHER -> "string"

RECURSIVE JSONRenderer(_)
\* core.py 235: the JSON object of the event dict, keys in the dict's order
JSONRenderer(event_dict) ==
    [i \in DOMAIN event_dict |->
        [event_dict[i] EXCEPT !.t = JsonType(@), !.d = JSONRenderer(@)]]

\* One processor of a chain applied to the event dict of the call c.
Process(name, event_dict, c) ==
    CASE name = "merge_contextvars" -> Return(merge_contextvars(event_dict, c.ctx), FALSE)
      [] name = "add_log_level" -> Return(add_log_level(event_dict, c.method), FALSE)
      [] name = "add_logger_name" -> Return(add_logger_name(event_dict, c.name), FALSE)
      [] name = "TimeStamper" -> Return(TimeStamper(event_dict), FALSE)
      [] name = "StackInfoRenderer" -> Return(StackInfoRenderer(event_dict), FALSE)
      [] name = "format_exc_info" -> Return(format_exc_info(event_dict), FALSE)
      [] name = "rename_and_flatten_fields" -> rename_and_flatten_fields(event_dict)
      [] name = "nest_custom_fields" -> nest_custom_fields(event_dict)
      [] name = "add_sentry_trace_id" -> add_sentry_trace_id(event_dict, c.sdk)
      [] name = "remove_processors_meta_safe" -> remove_processors_meta_safe(event_dict)
      [] name = "JSONRenderer" -> Return(JSONRenderer(event_dict), FALSE)
      [] OTHER -> Return(event_dict, FALSE)

\* The keyword fields a caller may give a log call.
KeywordPool ==
    { Entry("version", "text", "1.0.0"), Entry("_secret", "text", "s3"),
      Entry("trace_id", "text", "caller"), Entry("span_id", "text", "caller"),
      Entry("service_name", "text", "mine"), Entry("exc_info", "bool", "true") }

Keywords == DictsOver(KeywordPool, MaxCustom)

Contexts ==
    { <<>>, <<Entry("request_id", "text", "r-1"), Entry("trace_id", "text", "bound")>> }

LogTraceEnvs ==
    { TraceEnv("none", Null), TraceEnv("active", Txt("")), TraceEnv("active", Txt("abc123")),
      TraceEnv("active", Txt("abc123-def456")) }

Methods == {"debug", "error"}

\* logging's number of a level name
LevelNo(method_name) ==
    CASE method_name = "debug" -> DEBUG
      [] method_name = "info" -> INFO
      [] method_name = "warning" -> WARNING
      [] method_name = "error" -> ERROR
      [] OTHER -> CRITICAL

LogOptions ==
    { o \in Options : o.sentry_environment = "production" /\ o.sentry_log_level = ERROR
                       /\ o.sentry_dsn \in {"", "dsn-1"} }

NoLogCall == [src |-> "none", method |-> "", name |-> "", ctx |-> <<>>,
              sdk |-> TraceEnv("none", Null), kw |-> <<>>]

At0(phase) == [phase |-> phase, i |-> 0]
At1(phase) == [phase |-> phase, i |-> 1]

LogIdle ==
    /\ call = NoLogCall
    /\ ed = <<>>
    /\ lpos = At0("idle")
    /\ applied = <<>>
    /\ lout = <<>>
    /\ diags = 0

\* core.py 16-251: the one get_logger call of the process
LogGetLogger ==
    /\ ncalls = 0
    /\ \E opts \in LogOptions : GetLogger(opts)

LogStart(c, dict, pos) ==
    /\ lpos.phase = "idle"
    /\ is_configured
    /\ call' = c
    /\ ed' = dict
    /\ lpos' = pos
    /\ UNCHANGED <<applied, lout, diags, fnVars, gateVars, seqVars, threadVars>>

\* logger.<method>(event, **kw) on the logger get_logger returned (core.py 249):
\* the event dict is the keyword fields, then the event.
LogCall ==
    \E m \in Methods, kw \in Keywords, ctx \in Contexts, sdk \in LogTraceEnvs :
        LogStart([src |-> "structlog", method |-> m, name |-> last.logger, ctx |-> ctx,
                  sdk |-> sdk, kw |-> kw],
                 Put(kw, "event", Entry("event", "text", "Service started")),
                 At1("chain"))

\* A call of the standard logging library by other code: the record goes to the
\* root logger's handlers.
ForeignCall ==
    \E m \in Methods, ctx \in Contexts, sdk \in LogTraceEnvs :
        LogStart([src |-> "foreign", method |-> m, name |-> "uvicorn.access", ctx |-> ctx,
                  sdk |-> sdk, kw |-> <<>>],
                 <<>>, At0("handle"))

\* One processor of the sequence procs runs; after the last one the call goes on
\* at `next`.
RunProcessor(procs, next) ==
    LET name == procs[lpos.i]
        r == Process(name, ed, call)
    IN /\ applied' = Append(applied, name)
       /\ IF r.outcome = "raise"
          THEN lpos' = At0("raised") /\ UNCHANGED <<ed, diags>>
          ELSE /\ ed' = r.ev
               /\ diags' = diags + (IF r.diag THEN 1 ELSE 0)
               /\ lpos' = IF lpos.i = Len(procs) THEN next
                                                  ELSE [lpos EXCEPT !.i = @ + 1]
       /\ UNCHANGED <<call, fnVars, gateVars, seqVars, threadVars>>

\* core.py 222-229: the processors structlog was configured with
ChainStep ==
    /\ lpos.phase = "chain"
    /\ RunProcessor(chain, At0("handle"))
    /\ UNCHANGED lout

\* core.py 239-245: the root logger drops a record below its level, else its
\* handler's formatter takes the record: the event dict of a structlog call with
\* the two bookkeeping keys, a new one for a foreign record.
Handle ==
    /\ lpos.phase = "handle"
    /\ IF LevelNo(call.method) < root_level \/ handlers = <<>>
       THEN lpos' = At0("filtered") /\ UNCHANGED ed
       ELSE IF call.src = "structlog"
       THEN /\ ed' = Put(Put(ed, "_record", Entry("_record", "pyobj", "record")),
                          "_from_structlog", Entry("_from_structlog", "bool", "true"))
            /\ lpos' = At1("format")
       ELSE /\ ed' = << Entry("event", "text", HealthLine),
                        Entry("_record", "pyobj", "record"),
                        Entry("_from_structlog", "bool", "false") >>
            /\ lpos' = At1("pre_chain")
    /\ UNCHANGED <<call, applied, lout, diags, fnVars, gateVars, seqVars, threadVars>>

\* core.py 232: the formatter's foreign_pre_chain
PreChainStep ==
    /\ lpos.phase = "pre_chain"
    /\ RunProcessor(handlers[1].foreign_pre_chain, At1("format"))
    /\ UNCHANGED lout

\* core.py 233-236: the formatter's processors; the last one renders the line
FormatStep ==
    /\ lpos.phase = "format"
    /\ RunProcessor(handlers[1].processors, At0("done"))
    /\ lout' = IF lpos.i = Len(handlers[1].processors)
                  /\ Process(handlers[1].processors[lpos.i], ed, call).outcome = "return"
               THEN Process(handlers[1].processors[lpos.i], ed, call).ev
               ELSE lout

LogNext ==
    \/ LogGetLogger
    \/ LogCall
    \/ ForeignCall
    \/ ChainStep
    \/ Handle
    \/ PreChainStep
    \/ FormatStep

----------------------------------------------------------------------------
(* The specifications. *)

\* get_logger and reset_configuration called one after the other
Init == GateInit /\ SeqIdle /\ FnIdle /\ ThreadIdle /\ LogIdle
Next == (\E opts \in Options : GetLogger(opts)) \/ reset_configuration
Spec == Init /\ [][Next]_vars

\* get_logger called by MaxThreads threads of a process not yet configured
InitThreads == GateInit /\ SeqIdle /\ FnIdle /\ ThreadInit /\ LogIdle
SpecThreads == InitThreads /\ [][ThreadNext]_vars

\* one call of one processor or filter
InitFn == GateInit /\ SeqIdle /\ FnInit /\ ThreadIdle /\ LogIdle
SpecFn == InitFn /\ [][FnNext]_vars

\* one log call of a process that called get_logger once
SpecLog == Init /\ [][LogNext]_vars

----------------------------------------------------------------------------
(* The properties. *)

AllDone == \A t \in Threads : pc[t] = "done"
AllGiven == \A t \in Threads : topts[t].sentry_dsn # ""

\* C1: when threads call get_logger concurrently on a process not yet configured,
\* each with a DSN, then once all have returned exactly one root handler is
\* installed and the remote client was initialized exactly once.
C1_InitializedOnce ==
    (AllGiven /\ AllDone) => (Len(handlers) = 1 /\ sentry_inits = 1)

Rendered == lpos.phase = "done"
EnricherInstalled == last.opts.sentry_dsn # ""
ContextActive == call.sdk.scope = "active" /\ Truthy(call.sdk.traceparent)
WellFormedHeader ==
    /\ call.sdk.scope = "active"
    /\ call.sdk.traceparent.t = "text"
    /\ Len(Split(call.sdk.traceparent.s)) >= 2
NoInternalKey(dict) == \A k \in KeySet(dict) : ~StartsWithUnderscore(k)

\* C2 as claimed: the rendered record's top-level keys are standard fields or
\* details, and none starts with an underscore.
C2_OnlyStandardTopLevel ==
    Rendered => (KeySet(lout) \subseteq STANDARD_FIELDS \cup {"details"}
                 /\ NoInternalKey(lout))

\* C2 as amended: the rendered record's top-level keys are standard fields,
\* details, or span_id, the latter only when the enricher is installed and a
\* tracing context with a well-formed header was active; none starts with an
\* underscore.
C2_StandardOrSpanId ==
    Rendered => /\ KeySet(lout) \subseteq STANDARD_FIELDS \cup {"details", "span_id"}
                /\ "span_id" \in KeySet(lout) => (EnricherInstalled /\ WellFormedHeader)
                /\ NoInternalKey(lout)

C2_Witness ==
    /\ Rendered
    /\ Has(call.kw, "_secret")
    /\ {"span_id", "details"} \subseteq KeySet(lout)

\* C3 as claimed: no log call raises, and the rendered record carries trace_id
\* and span_id when a tracing context with a correlation header was active, and
\* neither when none was.
C3_TraceIffContext ==
    /\ lpos.phase # "raised"
    /\ Rendered => IF ContextActive
                   THEN Has(lout, "trace_id") /\ Has(lout, "span_id")
                   ELSE ~Has(lout, "trace_id") /\ ~Has(lout, "span_id")

\* The fields the caller gave the event: bound context variables, then keywords.
Supplied == PutAll(call.ctx, call.kw)

\* C3 as amended: no log call raises; when the enricher is installed and a context
\* whose header has two or more hyphen-separated segments was active, the rendered
\* record has the header's first two segments as top-level trace_id and span_id;
\* in every other case the pipeline adds neither: a top-level trace_id is the
\* caller's own (a keyword field or a bound context variable), and there is no
\* top-level span_id.
C3_TraceWhenEnriched ==
    /\ lpos.phase # "raised"
    /\ Rendered =>
         IF EnricherInstalled /\ WellFormedHeader
         THEN /\ Has(lout, "trace_id") /\ Has(lout, "span_id")
              /\ At(lout, "trace_id").s = Split(call.sdk.traceparent.s)[1]
              /\ At(lout, "span_id").s = Split(call.sdk.traceparent.s)[2]
         ELSE /\ ~Has(lout, "span_id")
              /\ Has(lout, "trace_id") <=> Has(Supplied, "trace_id")
              /\ Has(lout, "trace_id") => At(lout, "trace_id").s = At(Supplied, "trace_id").s

C3_Witness ==
    /\ Rendered
    /\ Has(call.kw, "trace_id")
    /\ Has(lout, "span_id")
    /\ At(lout, "trace_id").s = "abc123"

\* C4: no processor and no remote-sink filter raises, whatever mapping it is given.
C4_NeverRaises == res.outcome # "raise"

\* A log item as the remote client builds it: texts (or nothing) under
\* severity_text, logger and body, mappings (or nothing) under attributes and
\* logentry, with a text or nothing inside.
TextOrNone(v) == v.t \in {"text", "absent", "null"}
MapOrNone(v) == v.t = "absent" \/ (v.t = "map" /\ v.it \in {"text", "absent"})

LogItemTyped(item) ==
    /\ TextOrNone(item.severity_text)
    /\ TextOrNone(item.logger)
    /\ TextOrNone(item.body)
    /\ MapOrNone(item.attributes)
    /\ MapOrNone(item.logentry)

\* The five-level order of the claims, an unrecognized label counted as info.
ClaimedRank(label) ==
    CASE label = "debug" -> 1
      [] label \in {"warn", "warning"} -> 3
      [] label = "error" -> 4
      [] label = "fatal" -> 5
      [] OTHER -> 2

RankOfLevel(level) == level \div 10

TextOf(v) == IF v.t = "text" THEN v.s ELSE ""
Inner(v) == IF v.t = "map" /\ v.it = "text" THEN v.s ELSE ""

C5_Expected(item, minimum) ==
    LET label == TextOf(item.severity_text)
        name == IF TextOf(item.logger) # "" THEN TextOf(item.logger)
                ELSE Inner(item.attributes)
        message == IF TextOf(item.body) # "" THEN TextOf(item.body)
                   ELSE Inner(item.logentry)
    IN IF label # "" /\ ClaimedRank(Lower(label)) < RankOfLevel(minimum) THEN "drop"
       ELSE IF name = "uvicorn.access" /\ Contains("GET /health", message)
               /\ Contains("HTTP", message) THEN "drop"
       ELSE "keep"

\* C5: before_send_log drops a log item whose severity label (any letter case;
\* unrecognized labels count as info) ranks below the configured minimum in
\* debug < info < warn/warning < error < fatal; otherwise drops it when its logger
\* name (logger, else attributes logger.name) is uvicorn.access and its message
\* (body, else logentry formatted) contains both GET /health and HTTP; and in
\* every other case returns the item unchanged.
C5_EventFilterDecision ==
    (fn = "before_send_log" /\ res.outcome # "pending" /\ LogItemTyped(arg)) =>
        /\ res.outcome = C5_Expected(arg, env.level)
        /\ res.outcome = "keep" => res.item = arg

C5_Witness ==
    /\ fn = "before_send_log"
    /\ res.outcome = "drop"
    /\ arg.severity_text = Txt("error")
    /\ env.level = ERROR
    /\ arg.logger = Absent
    /\ arg.attributes = MapOf(Txt("uvicorn.access"))
    /\ arg.body = Txt("")
    /\ arg.logentry = MapOf(Txt(HealthLine))

CrumbTyped(crumb) ==
    /\ TextOrNone(crumb.category)
    /\ crumb.message.t \in {"text", "absent"}
    /\ TextOrNone(crumb.level)

C6_Expected(crumb, minimum) ==
    IF TextOf(crumb.category) = "uvicorn.access"
       /\ Contains("GET /health", TextOf(crumb.message)) THEN "drop"
    ELSE IF crumb.level.t # "text"
         THEN IF minimum <= INFO THEN "keep" ELSE "drop"
    ELSE IF ClaimedRank(crumb.level.s) >= RankOfLevel(minimum) THEN "keep"
    ELSE "drop"

\* C6: before_breadcrumb drops an access-log breadcrumb whose message contains
\* GET /health; otherwise keeps a breadcrumb with no level only if the configured
\* minimum is INFO or lower; otherwise keeps a levelled breadcrumb exactly when its
\* level is at or above the configured minimum in debug < info < warning < error <
\* fatal, an unrecognized label counted as info.
C6_BreadcrumbDecision ==
    (fn = "before_breadcrumb" /\ res.outcome # "pending" /\ CrumbTyped(arg)) =>
        res.outcome = C6_Expected(arg, env.level)

IsStandard(e) == e.k \in STANDARD_FIELDS
IsCustom(e) == ~StartsWithUnderscore(e.k) /\ e.k \notin STANDARD_FIELDS

\* C7: nest_custom_fields returns the standard keys at top level with their values,
\* drops the keys that start with an underscore, and moves every other key, with
\* its value and in the original order, into details, which is the last key; with
\* no such key there is no details key.
C7_NestPartition ==
    (fn = "nest_custom_fields" /\ res.outcome # "pending") =>
        /\ res.outcome = "return"
        /\ IF SelectSeq(arg, IsCustom) = <<>>
           THEN res.ev = SelectSeq(arg, IsStandard)
           ELSE /\ SubSeq(res.ev, 1, Len(res.ev) - 1) = SelectSeq(arg, IsStandard)
                /\ res.ev[Len(res.ev)].k = "details"
                /\ res.ev[Len(res.ev)].d = SelectSeq(arg, IsCustom)

C7_Witness ==
    /\ fn = "nest_custom_fields"
    /\ res.outcome = "return"
    /\ Keys(arg) = <<"version", "_record", "message">>
    /\ Keys(res.ev) = <<"message", "details">>

\* C8: a get_logger call runs the initialization exactly when it is the first
\* since the process started or was last reset; a call that is not leaves what is
\* installed unchanged; and a call that is installs everything from its own
\* options: the remote client, the processor chain, the root handler and level.
C8_InitOncePerReset ==
    last.kind = "get_logger" =>
        /\ last.ran <=> last.count = 1
        /\ ~last.ran => Installed = last.before
        /\ last.ran => Installed = InstalledBy(last.opts)

Stage(name) ==
    name \in { "rename_and_flatten_fields", "add_sentry_trace_id", "nest_custom_fields",
               "remove_processors_meta_safe", "JSONRenderer" }

\* C9 as claimed: every rendered event went through normalize, enrich (when
\* installed), nest, strip, serialize, in this order and once each.
C9_StageOrder ==
    Rendered =>
        SelectSeq(applied, Stage) =
            <<"rename_and_flatten_fields">>
            \o (IF EnricherInstalled THEN <<"add_sentry_trace_id">> ELSE <<>>)
            \o <<"nest_custom_fields", "remove_processors_meta_safe", "JSONRenderer">>

\* C9 as amended: every rendered event, from the structured front-end or from a
\* standard-logging call site, went through normalize, nest, enrich (when
\* installed), strip, serialize, in this order and once each.
C9_StageOrderNestFirst ==
    Rendered =>
        SelectSeq(applied, Stage) =
            <<"rename_and_flatten_fields", "nest_custom_fields">>
            \o (IF EnricherInstalled THEN <<"add_sentry_trace_id">> ELSE <<>>)
            \o <<"remove_processors_meta_safe", "JSONRenderer">>

C9_Witness ==
    /\ Rendered
    /\ call.src = "foreign"
    /\ EnricherInstalled
    /\ Has(lout, "span_id")

\* C10: every record rendered for a call on the logger get_logger(service_name)
\* returned has a top-level service_name whose value is that service name.
C10_ServiceNameField ==
    (Rendered /\ call.src = "structlog") =>
        (Has(lout, "service_name") /\ At(lout, "service_name").s = call.name)

====
